---- MODULE Spec2Model ----
(***************************************************************************)
(* Velocirrus Analytics dashboard (app.py): one run of the Streamlit       *)
(* script per refresh.  The script picks a data source, builds the         *)
(* position frame flight_df and the zone list zones_data (simulated, live  *)
(* or substituted after a feed failure), colours every position by its ef  *)
(* value, hands both to the map and displays three metrics.                *)
(*                                                                         *)
(* Numbers are fixed point: longitude/latitude in 1/CoordScale degree,     *)
(* altitude in 1/AltScale metre, ef in 1/EfScale W/m^2, total_dist in      *)
(* 1/10 km, time in seconds after the cached start_time.                   *)
(***************************************************************************)
EXTENDS Integers, Sequences, FiniteSets, TLC

\* ------------------------------------------------------------------ bounds
\* Longest live feed (number of state vectors) the model enumerates.
MaxRecords == 2

\* ------------------------------------------------------- program constants
\* np.linspace(..., 100): number of points of the simulated trajectory.
NPoints == 100
\* Altitude filter of the live branch: flight_df['altitude'] > 5000.
MinAltitudeM == 5000
\* get_color: ef_value > 10.
EfThresholdWm2 == 10
\* np.random.randint(0, 50, ...): exclusive upper end of the dummy ef.
RandHigh == 50
\* contrail_len = len(...) * 5.
KmPerPoint == 5
\* total_dist = 5554.2, in tenths of a kilometre.
DemoDistTenthKm == 55542

CoordScale == 100 * (NPoints - 1)
AltScale == NPoints - 1
EfScale == 1000

\* A missing cell of a pandas column (NaN); every ordering test with it is false.
NaN == 0 - 2147483647

Gt(a, b) == a # NaN /\ b # NaN /\ a > b

\* ------------------------------------------------------------ data frames
\* A DataFrame is its column set and its rows in index order.
EmptyFrame == [columns |-> {}, rows |-> <<>>]

\* np.linspace(start, stop, NPoints)[i], in units of 1/(NPoints-1) of the
\* unit of start and stop.
Linspace(start, stop, i) == start * (NPoints - 1) + (stop - start) * i

\* round(50 * sin(i/10) * EfScale) for i = 31 .. 69.
MockEfTable ==
  << 2079, -2919, -7887, -12777, -17539, -22126, -26492, -30593, -34388,
     -37840, -40914, -43579, -45808, -47580, -48877, -49685, -49996, -49808,
     -49123, -47946, -46291, -44173, -41613, -38638, -35277, -31563, -27534,
     -23230, -18694, -13971, -9108, -4154, 841, 5827, 10756, 15577, 20242,
     24706, 28922 >>

\* "ef": [50 * np.sin(i/10) if 30 < i < 70 else 0 for i in range(100)]
MockEf(i) == IF 30 < i /\ i < 70 THEN MockEfTable[i - 30] ELSE 0

\* Row i (0-based) of generate_mock_flight_path(): endpoints in hundredths of
\* a degree, altitude in metres, one point every 4.8 minutes.
MockRow(i) ==
  [ longitude |-> Linspace(-45, -7377, i),
    latitude  |-> Linspace(5147, 4064, i),
    altitude  |-> Linspace(10668, 11887, i),
    time      |-> 288 * i,
    ef        |-> MockEf(i) ]

generate_mock_flight_path ==
  [ columns |-> {"longitude", "latitude", "altitude", "time", "ef"},
    rows    |-> [k \in 1..NPoints |-> MockRow(k - 1)] ]

\* Zone paths are in whole degrees, <<longitude, latitude>>, closed.
generate_mock_contrail_zones ==
  << [ name  |-> "Zone Alpha (High Humidity)",
       path  |-> << <<-40, 45>>, <<-30, 45>>, <<-30, 50>>, <<-40, 50>>, <<-40, 45>> >>,
       color |-> <<255, 0, 0, 100>> ],
     [ name  |-> "Zone Beta (Ice Supersaturated)",
       path  |-> << <<-20, 48>>, <<-15, 48>>, <<-15, 52>>, <<-20, 52>>, <<-20, 48>> >>,
       color |-> <<255, 140, 0, 100>> ] >>

\* flight_df.rename(columns={"lon": ..., "lat": ..., "baroaltitude": ...}):
\* names absent from the frame are ignored, other columns are kept.
RenameMap == [lon |-> "longitude", lat |-> "latitude", baroaltitude |-> "altitude"]

NewName(c) == IF c \in DOMAIN RenameMap THEN RenameMap[c] ELSE c

RenameRow(r) ==
  [c \in {NewName(k) : k \in DOMAIN r} |-> r[CHOOSE k \in DOMAIN r : NewName(k) = c]]

Rename(df) ==
  [ columns |-> {NewName(c) : c \in df.columns},
    rows    |-> [k \in 1..Len(df.rows) |-> RenameRow(df.rows[k])] ]

Cruising(r) == Gt(r.altitude, MinAltitudeM * AltScale)

\* flight_df[flight_df['altitude'] > 5000]
AltitudeFilter(df) == [df EXCEPT !.rows = SelectSeq(df.rows, Cruising)]

\* df[name] = values (one value per row, in row order).
WithColumn(df, name, values) ==
  [ columns |-> df.columns \cup {name},
    rows    |-> [k \in 1..Len(df.rows) |->
                   [c \in DOMAIN df.rows[k] \cup {name} |->
                      IF c = name THEN values[k] ELSE df.rows[k][c]]] ]

RECURSIVE SumEf(_)
SumEf(rows) == IF rows = <<>> THEN 0 ELSE Head(rows).ef + SumEf(Tail(rows))

\* flight_df['ef'].mean(), rounded down to 1/EfScale.
MeanEf(df) == SumEf(df.rows) \div Len(df.rows)

RED == <<255, 0, 0, 200>>
GREEN == <<0, 255, 0, 200>>

get_color(ef_value) == IF ef_value > EfThresholdWm2 * EfScale THEN RED ELSE GREEN

HighEf(r) == r.ef > EfThresholdWm2 * EfScale

\* len(flight_df[flight_df['ef'] > 10]) * 5
ContrailLen(df) == Len(SelectSeq(df.rows, HighEf)) * KmPerPoint

\* Variant of ColorLogic: colours by selecting the high-ef rows, so the other
\* positions are lost.
ColorLogicSelectsHigh(df) ==
  LET high == [df EXCEPT !.rows = SelectSeq(df.rows, HighEf)]
  IN  WithColumn(high, "color", [k \in 1..Len(high.rows) |-> RED])

\* flight_df["color"] = flight_df["ef"].apply(get_color)
ColorLogic(df) ==
  WithColumn(df, "color", [k \in 1..Len(df.rows) |-> get_color(df.rows[k].ef)])

\* ------------------------------------------------------ the live position feed
\* State vectors the feed may return for the North Atlantic box: cruising
\* inside Zone Alpha, cruising outside every zone, at the altitude threshold,
\* and with one of the three fields missing.
FeedRows ==
  { [lon |-> -35 * CoordScale, lat |-> 47 * CoordScale, baroaltitude |-> 11000 * AltScale],
    [lon |-> -50 * CoordScale, lat |-> 55 * CoordScale, baroaltitude |-> 11000 * AltScale],
    [lon |-> -35 * CoordScale, lat |-> 47 * CoordScale, baroaltitude |-> MinAltitudeM * AltScale],
    [lon |-> NaN,              lat |-> 47 * CoordScale, baroaltitude |-> 11000 * AltScale],
    [lon |-> -35 * CoordScale, lat |-> NaN,              baroaltitude |-> 11000 * AltScale],
    [lon |-> -35 * CoordScale, lat |-> 47 * CoordScale, baroaltitude |-> NaN] }

FeedSeqs == UNION {[1..n -> FeedRows] : n \in 0..MaxRecords}

DropColumn(df, name) ==
  [ columns |-> df.columns \ {name},
    rows    |-> [k \in 1..Len(df.rows) |->
                   [c \in DOMAIN df.rows[k] \ {name} |-> df.rows[k][c]]] ]

\* sv.data: the state vectors with all three fields, or a frame that lacks
\* the barometric altitude column.
FeedFrames ==
  LET full == {[columns |-> {"lon", "lat", "baroaltitude"}, rows |-> s] : s \in FeedSeqs}
  IN  full \cup {DropColumn(f, "baroaltitude") : f \in full}

\* Values np.random.randint(0, 50) is sampled at: both ends and both sides
\* of the colour threshold.
EfSamples == {0, EfThresholdWm2, EfThresholdWm2 + 1, RandHigh - 1}

\* ------------------------------------------------------------------- state
VARIABLES
  pc,            \* position of the script run
  data_source,   \* the sidebar radio's value
  bound,         \* names bound in the script's namespace
  sv,            \* result of opensky.api_states
  flight_df, zones_data, total_dist, avg_ef, contrail_len,
  status,        \* st.warning / st.success / st.error / st.info of this run
  api_called,    \* opensky.api_states was invoked in this run
  deck,          \* layers handed to st.pydeck_chart
  metrics,       \* values shown by the three col.metric calls
  prev           \* what the previous run rendered (SpecRerun only)

vars == << pc, data_source, bound, sv, flight_df, zones_data, total_dist,
           avg_ef, contrail_len, status, api_called, deck, metrics, prev >>

DEMO == "Demo Mode (Simulation)"
LIVE == "Live Data (OpenSky + GFS)"

NoSv == [is_none |-> TRUE, data |-> EmptyFrame]
NoDeck == [rendered |-> FALSE, zones |-> <<>>, flights |-> EmptyFrame]
NoPrev == [seen |-> FALSE, zones |-> <<>>, flights |-> EmptyFrame]

Msg(level, text, n) == [level |-> level, text |-> text, n |-> n]

SimulationWarning == Msg("warning", "Running in Simulation Mode. No APIs are being called.", 0)
TrackedSuccess(n) == Msg("success", "Tracked {n} aircraft in North Atlantic.", n)
NoLiveError == Msg("error", "No live aircraft found in zone. Switching to demo data.", 0)
ApiError == Msg("error", "API Connection Error: {e}", 0)
FallbackInfo == Msg("info", "Falling back to Demo Data.", 0)

\* A fresh run of the script: nothing is bound yet.
Fresh ==
  /\ pc = "start"
  /\ data_source = DEMO
  /\ bound = {}
  /\ sv = NoSv
  /\ flight_df = EmptyFrame
  /\ zones_data = <<>>
  /\ total_dist = 0
  /\ avg_ef = 0
  /\ contrail_len = 0
  /\ status = <<>>
  /\ api_called = FALSE
  /\ deck = NoDeck
  /\ metrics = <<>>

Init == Fresh /\ prev = NoPrev

MetricNames == {"total_dist", "avg_ef", "contrail_len"}

\* ----------------------------------------------------------------- actions
\* Variant of DemoBranch: the feed is queried before the branch is taken.
DemoBranchQueriesFeed ==
  /\ pc = "start"
  /\ data_source' = DEMO
  /\ api_called' = TRUE
  /\ status' = Append(status, SimulationWarning)
  /\ flight_df' = generate_mock_flight_path
  /\ zones_data' = generate_mock_contrail_zones
  /\ total_dist' = DemoDistTenthKm
  /\ avg_ef' = MeanEf(generate_mock_flight_path)
  /\ contrail_len' = ContrailLen(generate_mock_flight_path)
  /\ bound' = bound \cup {"flight_df", "zones_data"} \cup MetricNames
  /\ pc' = "color"
  /\ UNCHANGED << sv, deck, metrics, prev >>

\* data_source == "Demo Mode (Simulation)": the whole simulation branch.
DemoBranch ==
  /\ pc = "start"
  /\ data_source' = DEMO
  /\ status' = Append(status, SimulationWarning)
  /\ flight_df' = generate_mock_flight_path
  /\ zones_data' = generate_mock_contrail_zones
  /\ total_dist' = DemoDistTenthKm
  /\ avg_ef' = MeanEf(generate_mock_flight_path)
  /\ contrail_len' = ContrailLen(generate_mock_flight_path)
  /\ bound' = bound \cup {"flight_df", "zones_data"} \cup MetricNames
  /\ pc' = "color"
  /\ UNCHANGED << sv, api_called, deck, metrics, prev >>

\* The imports inside the try block fail: the feed is never called.
LiveImportError ==
  /\ pc = "start"
  /\ data_source' = LIVE
  /\ pc' = "except"
  /\ UNCHANGED << bound, sv, flight_df, zones_data, total_dist, avg_ef,
                  contrail_len, status, api_called, deck, metrics, prev >>

\* opensky.api_states(...) raises.
LiveFetchError ==
  /\ pc = "start"
  /\ data_source' = LIVE
  /\ api_called' = TRUE
  /\ pc' = "except"
  /\ UNCHANGED << bound, sv, flight_df, zones_data, total_dist, avg_ef,
                  contrail_len, status, deck, metrics, prev >>

\* Variant of LiveFetchNone: the switch to demo data is not reported.
LiveFetchNoneSilent ==
  /\ pc = "start"
  /\ data_source' = LIVE
  /\ api_called' = TRUE
  /\ sv' = NoSv
  /\ flight_df' = generate_mock_flight_path
  /\ zones_data' = generate_mock_contrail_zones
  /\ bound' = bound \cup {"sv", "flight_df", "zones_data"}
  /\ pc' = "color"
  /\ UNCHANGED << total_dist, avg_ef, contrail_len, status, deck, metrics, prev >>

\* opensky.api_states(...) returns None: the else branch of "sv is not None".
LiveFetchNone ==
  /\ pc = "start"
  /\ data_source' = LIVE
  /\ api_called' = TRUE
  /\ sv' = NoSv
  /\ status' = Append(status, NoLiveError)
  /\ flight_df' = generate_mock_flight_path
  /\ zones_data' = generate_mock_contrail_zones
  /\ bound' = bound \cup {"sv", "flight_df", "zones_data"}
  /\ pc' = "color"
  /\ UNCHANGED << total_dist, avg_ef, contrail_len, deck, metrics, prev >>

\* opensky.api_states(...) returns state vectors: flight_df = sv.data, renamed.
LiveFetchData ==
  /\ pc = "start"
  /\ data_source' = LIVE
  /\ api_called' = TRUE
  /\ \E f \in FeedFrames :
       /\ sv' = [is_none |-> FALSE, data |-> f]
       /\ flight_df' = Rename(f)
  /\ bound' = bound \cup {"sv", "flight_df"}
  /\ pc' = "filter"
  /\ UNCHANGED << zones_data, total_dist, avg_ef, contrail_len, status,
                  deck, metrics, prev >>

\* flight_df = flight_df[flight_df['altitude'] > 5000]; KeyError without the column.
LiveFilter ==
  /\ pc = "filter"
  /\ IF "altitude" \in flight_df.columns
       THEN /\ flight_df' = AltitudeFilter(flight_df)
            /\ pc' = "ef"
       ELSE /\ flight_df' = flight_df
            /\ pc' = "except"
  /\ UNCHANGED << data_source, bound, sv, zones_data, total_dist, avg_ef,
                  contrail_len, status, api_called, deck, metrics, prev >>

\* flight_df['ef'] = np.random.randint(0, 50, size=len(flight_df))
LiveEf ==
  /\ pc = "ef"
  /\ \E draw \in [1..Len(flight_df.rows) -> EfSamples] :
       flight_df' = WithColumn(flight_df, "ef",
                      [k \in 1..Len(flight_df.rows) |-> draw[k] * EfScale])
  /\ pc' = "finish"
  /\ UNCHANGED << data_source, bound, sv, zones_data, total_dist, avg_ef,
                  contrail_len, status, api_called, deck, metrics, prev >>

\* Variant of LiveFinish: with live positions the zones are taken to be live
\* too, and none were fetched.
LiveFinishLiveZones ==
  /\ pc = "finish"
  /\ zones_data' = <<>>
  /\ total_dist' = 0
  /\ avg_ef' = 0
  /\ contrail_len' = 0
  /\ bound' = bound \cup {"zones_data"} \cup MetricNames
  /\ status' = Append(status, TrackedSuccess(Len(flight_df.rows)))
  /\ pc' = "color"
  /\ UNCHANGED << data_source, sv, flight_df, api_called, deck, metrics, prev >>

\* Mock zones, zero metrics and the success message that ends the try block.
LiveFinish ==
  /\ pc = "finish"
  /\ zones_data' = generate_mock_contrail_zones
  /\ total_dist' = 0
  /\ avg_ef' = 0
  /\ contrail_len' = 0
  /\ bound' = bound \cup {"zones_data"} \cup MetricNames
  /\ status' = Append(status, TrackedSuccess(Len(flight_df.rows)))
  /\ pc' = "color"
  /\ UNCHANGED << data_source, sv, flight_df, api_called, deck, metrics, prev >>

\* Any other statement of the try block raises after the live positions
\* were assigned and filtered (the ef assignment, st.success).
LiveRaise ==
  /\ pc \in {"ef", "finish"}
  /\ pc' = "except"
  /\ UNCHANGED << data_source, bound, sv, flight_df, zones_data, total_dist,
                  avg_ef, contrail_len, status, api_called, deck, metrics, prev >>

\* Variant of ExceptHandler: positions the try block already assigned are kept.
ExceptHandlerKeepsPartial ==
  /\ pc = "except"
  /\ status' = status \o <<ApiError, FallbackInfo>>
  /\ flight_df' = IF "flight_df" \in bound THEN flight_df ELSE generate_mock_flight_path
  /\ zones_data' = generate_mock_contrail_zones
  /\ total_dist' = 0
  /\ avg_ef' = 0
  /\ contrail_len' = 0
  /\ bound' = bound \cup {"flight_df", "zones_data"} \cup MetricNames
  /\ pc' = "color"
  /\ UNCHANGED << data_source, sv, api_called, deck, metrics, prev >>

\* except Exception as e: report, fall back to the demo data, zero metrics.
ExceptHandler ==
  /\ pc = "except"
  /\ status' = status \o <<ApiError, FallbackInfo>>
  /\ flight_df' = generate_mock_flight_path
  /\ zones_data' = generate_mock_contrail_zones
  /\ total_dist' = 0
  /\ avg_ef' = 0
  /\ contrail_len' = 0
  /\ bound' = bound \cup {"flight_df", "zones_data"} \cup MetricNames
  /\ pc' = "color"
  /\ UNCHANGED << data_source, sv, api_called, deck, metrics, prev >>

\* flight_df["color"] = flight_df["ef"].apply(get_color)
ColorStep ==
  /\ pc = "color"
  /\ flight_df' = ColorLogic(flight_df)
  /\ pc' = "render"
  /\ UNCHANGED << data_source, bound, sv, zones_data, total_dist, avg_ef,
                  contrail_len, status, api_called, deck, metrics, prev >>

\* pdk.Deck(layers=[zones_layer, flight_layer]); st.pydeck_chart(r)
Render ==
  /\ pc = "render"
  /\ deck' = [rendered |-> TRUE, zones |-> zones_data, flights |-> flight_df]
  /\ pc' = "metrics"
  /\ UNCHANGED << data_source, bound, sv, flight_df, zones_data, total_dist,
                  avg_ef, contrail_len, status, api_called, metrics, prev >>

\* The three col.metric calls; reading an unbound name is a NameError that
\* ends the run.
MetricsDisplay ==
  /\ pc = "metrics"
  /\ IF MetricNames \subseteq bound
       THEN /\ metrics' = <<total_dist, avg_ef, contrail_len>>
            /\ pc' = "done"
       ELSE /\ metrics' = metrics
            /\ pc' = "crashed"
  /\ UNCHANGED << data_source, bound, sv, flight_df, zones_data, total_dist,
                  avg_ef, contrail_len, status, api_called, deck, prev >>

\* Streamlit runs the script again in a fresh namespace; the radio keeps its value.
Reset ==
  /\ pc \in {"done", "crashed"}
  /\ pc' = "start"
  /\ bound' = {}
  /\ sv' = NoSv
  /\ flight_df' = EmptyFrame
  /\ zones_data' = <<>>
  /\ total_dist' = 0
  /\ avg_ef' = 0
  /\ contrail_len' = 0
  /\ status' = <<>>
  /\ api_called' = FALSE
  /\ deck' = NoDeck
  /\ metrics' = <<>>
  /\ UNCHANGED data_source

Rerun == Reset /\ UNCHANGED prev

\* The same rerun, remembering what the run that just ended put on the map.
RerunAfterRender ==
  /\ Reset
  /\ prev' = [seen |-> TRUE, zones |-> deck.zones, flights |-> deck.flights]

Next ==
  \/ DemoBranch
  \/ LiveImportError
  \/ LiveFetchError
  \/ LiveFetchNone
  \/ LiveFetchData
  \/ LiveFilter
  \/ LiveEf
  \/ LiveFinish
  \/ LiveRaise
  \/ ExceptHandler
  \/ ColorStep
  \/ Render
  \/ MetricsDisplay
  \/ Rerun

Spec == Init /\ [][Next]_vars

NextRerun ==
  \/ DemoBranch
  \/ LiveImportError
  \/ LiveFetchError
  \/ LiveFetchNone
  \/ LiveFetchData
  \/ LiveFilter
  \/ LiveEf
  \/ LiveFinish
  \/ LiveRaise
  \/ ExceptHandler
  \/ ColorStep
  \/ Render
  \/ MetricsDisplay
  \/ RerunAfterRender

\* Two consecutive runs observed together.
SpecRerun == Init /\ [][NextRerun]_vars

\* ------------------------------------------------------------ observations
\* The run has handed its layers to the map.
Rendered == deck.rendered

SimulatedShown == ColorLogic(generate_mock_flight_path)

RowPosition(r) == [longitude |-> r.longitude, latitude |-> r.latitude, altitude |-> r.altitude]

\* The positions of a frame, without their annotations.
Positions(df) == [k \in 1..Len(df.rows) |-> RowPosition(df.rows[k])]

\* Edge k of a closed path is crossed by the ray from (lon, lat) towards
\* greater longitude (even-odd rule; path in degrees, point in 1/CoordScale).
Crosses(lon, lat, path, k) ==
  LET x1 == path[k][1]      y1 == path[k][2]
      x2 == path[k + 1][1]  y2 == path[k + 1][2]
      above1 == y1 * CoordScale > lat
      above2 == y2 * CoordScale > lat
      lhs == (lon - x1 * CoordScale) * (y2 - y1)
      rhs == (lat - y1 * CoordScale) * (x2 - x1)
  IN  /\ above1 # above2
      /\ IF y2 > y1 THEN lhs < rhs ELSE lhs > rhs

InsidePath(lon, lat, path) ==
  /\ lon # NaN
  /\ lat # NaN
  /\ Cardinality({k \in 1..(Len(path) - 1) : Crosses(lon, lat, path, k)}) % 2 = 1

InsideSomeZone(r, zones) ==
  \E z \in 1..Len(zones) : InsidePath(r.longitude, r.latitude, zones[z].path)

Announces(m) == \E i \in 1..Len(status) : status[i] = m

\* A status that announces live data: the "Tracked n aircraft" success.
AnnouncesLive == \E i \in 1..Len(status) : status[i].level = "success"

\* A status that announces simulated / demo data.
AnnouncesSimulated ==
  Announces(SimulationWarning) \/ Announces(NoLiveError) \/ Announces(FallbackInfo)

\* The feed gave no usable answer in this run: it was not reached, it raised,
\* or it returned None.
FeedUnavailable == "sv" \notin bound \/ sv.is_none

\* The feed answered, and none of its records is above the altitude threshold.
NoQualifyingRecord ==
  /\ ~FeedUnavailable
  /\ "baroaltitude" \in sv.data.columns
  /\ \A k \in 1..Len(sv.data.rows) :
       ~Gt(sv.data.rows[k].baroaltitude, MinAltitudeM * AltScale)

\* The positions on the map are what the feed returned in this run.
LivePositionsShown ==
  /\ ~FeedUnavailable
  /\ "baroaltitude" \in sv.data.columns
  /\ Positions(deck.flights) = Positions(AltitudeFilter(Rename(sv.data)))

\* ------------------------------------------------------------------ claims
\* C1: every rendered position that lies inside a zone polygon is HIGH
\* (ef > 10, red), and every rendered position inside no zone is LOW (green).
C1_InsideHighOutsideLow ==
  Rendered =>
    \A k \in 1..Len(deck.flights.rows) :
      LET r == deck.flights.rows[k]
      IN  IF InsideSomeZone(r, deck.zones)
            THEN r.ef > EfThresholdWm2 * EfScale /\ r.color = RED
            ELSE r.color = GREEN

\* C2: when the live feed is unavailable or returns no qualifying record the
\* rendered positions are the simulated trajectory of NPoints points, and the
\* rendered position sequence is never empty.
C2_FallbackNonEmpty ==
  Rendered =>
    /\ (data_source = LIVE /\ (FeedUnavailable \/ NoQualifyingRecord))
          => deck.flights = SimulatedShown /\ Len(deck.flights.rows) = NPoints
    /\ deck.flights.rows # <<>>

\* C3: no run ends with an unhandled error, and the three metrics are bound
\* when they are displayed.
C3_NeverFatal ==
  /\ pc # "crashed"
  /\ pc = "metrics" => MetricNames \subseteq bound

MinOf(S) == CHOOSE x \in S : \A y \in S : x <= y
MaxOf(S) == CHOOSE x \in S : \A y \in S : x >= y
Lons(z) == {z.path[k][1] : k \in 1..Len(z.path)}
Lats(z) == {z.path[k][2] : k \in 1..Len(z.path)}

\* The path of z is the boundary of its bounding rectangle.
IsRectangle(z) ==
  \A k \in 1..Len(z.path) :
    /\ z.path[k][1] \in {MinOf(Lons(z)), MaxOf(Lons(z))}
    /\ z.path[k][2] \in {MinOf(Lats(z)), MaxOf(Lats(z))}

DisjointRectangles(a, b) ==
  \/ MaxOf(Lons(a)) < MinOf(Lons(b))
  \/ MaxOf(Lons(b)) < MinOf(Lons(a))
  \/ MaxOf(Lats(a)) < MinOf(Lats(b))
  \/ MaxOf(Lats(b)) < MinOf(Lats(a))

\* C4: whatever the position source, the zones handed to the map are the
\* fixed fallback set: exactly two zones, named for high humidity and ice
\* supersaturation, with disjoint rectangles.
C4_FallbackZones ==
  Rendered =>
    /\ deck.zones = generate_mock_contrail_zones
    /\ Len(deck.zones) = 2
    /\ deck.zones[1].name = "Zone Alpha (High Humidity)"
    /\ deck.zones[2].name = "Zone Beta (Ice Supersaturated)"
    /\ IsRectangle(deck.zones[1])
    /\ IsRectangle(deck.zones[2])
    /\ DisjointRectangles(deck.zones[1], deck.zones[2])

\* C4 witness: live positions are on the map together with the fallback zones.
C4_Witness ==
  /\ Rendered
  /\ data_source = LIVE
  /\ AnnouncesLive
  /\ LivePositionsShown
  /\ deck.flights.rows # <<>>

\* C5: two consecutive runs with identical positions and identical zones
\* render identical ef values and colours.
C5_Deterministic ==
  (/\ Rendered
   /\ prev.seen
   /\ Positions(prev.flights) = Positions(deck.flights)
   /\ prev.zones = deck.zones)
    => prev.flights = deck.flights

\* C6: on the live path no record that misses longitude, latitude or
\* altitude, or that is not above the altitude threshold, receives an ef
\* value and a colour.
C6_FilteredBeforeAnnotation ==
  (pc = "finish" \/ AnnouncesLive) =>
    \A k \in 1..Len(flight_df.rows) :
      LET r == flight_df.rows[k]
      IN  /\ r.longitude # NaN
          /\ r.latitude # NaN
          /\ r.altitude # NaN
          /\ r.altitude > MinAltitudeM * AltScale

\* C7: every run that reaches the map has emitted a status; live data is
\* announced only when the positions shown come from the feed, and simulated
\* data is announced exactly when the positions shown are the simulated
\* trajectory.
C7_StatusUnambiguous ==
  Rendered =>
    /\ status # <<>>
    /\ AnnouncesLive => LivePositionsShown /\ deck.flights # SimulatedShown
    /\ AnnouncesSimulated <=> deck.flights = SimulatedShown

\* C7 witness: a live run whose feed failed shows, and announces, simulated data.
C7_Witness ==
  /\ Rendered
  /\ data_source = LIVE
  /\ api_called
  /\ AnnouncesSimulated
  /\ deck.flights = SimulatedShown

\* C8: the colour step keeps the length and order of the positions, leaves
\* every existing column of every position unchanged and adds exactly one
\* colour per position; an empty frame stays empty.
C8_AnnotationFrame ==
  [][ (pc = "color" /\ pc' = "render") =>
        /\ Len(flight_df'.rows) = Len(flight_df.rows)
        /\ \A k \in 1..Len(flight_df.rows) :
             /\ DOMAIN flight_df'.rows[k] = DOMAIN flight_df.rows[k] \cup {"color"}
             /\ \A c \in DOMAIN flight_df.rows[k] :
                  flight_df'.rows[k][c] = flight_df.rows[k][c]
             /\ flight_df'.rows[k].color \in {RED, GREEN}
        /\ flight_df.rows = <<>> => flight_df'.rows = <<>> ]_vars

\* C8 witness: two different live positions, one red and one green, were coloured.
C8_Witness ==
  /\ pc = "render"
  /\ Len(flight_df.rows) = 2
  /\ RowPosition(flight_df.rows[1]) # RowPosition(flight_df.rows[2])
  /\ flight_df.rows[1].color = RED
  /\ flight_df.rows[2].color = GREEN

\* C9: a Demo Mode run never invokes the position feed, and what it works on
\* and renders is the simulated trajectory and the mock zones.
C9_DemoNoApi ==
  (data_source = DEMO /\ pc # "start") =>
    /\ ~api_called
    /\ "sv" \notin bound
    /\ flight_df \in {generate_mock_flight_path, SimulatedShown}
    /\ zones_data = generate_mock_contrail_zones
    /\ Rendered => deck.flights = SimulatedShown
                   /\ deck.zones = generate_mock_contrail_zones

\* C9 witness: a Demo Mode run has rendered.
C9_Witness == data_source = DEMO /\ Rendered /\ pc = "done"

\* C10: once the exception handler has run, the positions are the full
\* simulated trajectory, the zones are the mock zones and the three metrics
\* are 0, whatever the try block had assigned before the exception.
C10_FallbackAllOrNothing ==
  Announces(ApiError) =>
    /\ flight_df \in {generate_mock_flight_path, SimulatedShown}
    /\ zones_data = generate_mock_contrail_zones
    /\ MetricNames \subseteq bound
    /\ total_dist = 0 /\ avg_ef = 0 /\ contrail_len = 0
    /\ Rendered => deck.flights = SimulatedShown
                   /\ deck.zones = generate_mock_contrail_zones

\* C10 witness: the exception came after live positions had been assigned,
\* renamed and filtered, leaving at least one of them.
C10_Witness ==
  /\ Announces(ApiError)
  /\ Rendered
  /\ ~FeedUnavailable
  /\ ~NoQualifyingRecord
  /\ "baroaltitude" \in sv.data.columns

====
